---------------------------- MODULE Spec2Model ----------------------------
(***************************************************************************)
(* Model of services/ocr/app/http_server.py: the POST /ocr/process         *)
(* endpoint (process_ocr), the provider call and response normalisation    *)
(* (OCRService.process_ocr_api) and the two geometry helpers               *)
(* (_parse_word_coordinates, _calculate_line_bounding_box).                *)
(*                                                                         *)
(* JSON values of the provider's reply are dynamically typed in the code,  *)
(* so they are tagged here: t is the Python type ("int", "str", "null",    *)
(* "list") or "absent" for a key the dict does not have, v the number of   *)
(* an int and s the characters of a str.  Numbers are integers; the        *)
(* confidence, which the code computes in floating point, is kept as an    *)
(* exact fraction num/den.  Wall-clock timing (processing_time_ms) and     *)
(* logging do not influence any other value and are left out.              *)
(***************************************************************************)
EXTENDS Integers, Sequences, FiniteSets, TLC

VARIABLES
    pc,       \* position of the request: idle, handler, call, waiting, result, done
    req,      \* the multipart request: image part, its size, language, decodability
    calls,    \* number of client.post calls made for the current request
    outcome,  \* what the provider call produced (none, timeout, http_error, exception, reply)
    result,   \* the dict process_ocr_api returned
    resp      \* the HTTP response: status and body

vars == <<pc, req, calls, outcome, result, resp>>

---------------------------------------------------------------------------
(* Bounds of the model *)

MaxLines == 2

MaxWords == 2

MaxCalls == 2

---------------------------------------------------------------------------
(* Python values *)

IntV(n) == [t |-> "int", v |-> n, s |-> <<>>]

StrV(q) == [t |-> "str", v |-> 0, s |-> q]

NullV == [t |-> "null", v |-> 0, s |-> <<>>]

ListV(q) == [t |-> "list", v |-> 0, s |-> q]

AbsentV == [t |-> "absent", v |-> 0, s |-> <<>>]

\* the result of an expression that may raise
Ok(val) == [ok |-> TRUE, val |-> val]

Raised == [ok |-> FALSE, val |-> NullV]

\* dict.get(key, default)
Get(val, default) == IF val.t = "absent" THEN default ELSE val

DictGet(d, key, default) == IF key \in DOMAIN d THEN d[key] ELSE default

\* a + b: numbers add, strings concatenate, anything else is a TypeError
PyAdd(a, b) ==
    IF a.t = "int" /\ b.t = "int" THEN Ok(IntV(a.v + b.v))
    ELSE IF a.t = "str" /\ b.t = "str" THEN Ok(StrV(a.s \o b.s))
    ELSE Raised

\* a - b: defined on numbers only
PySub(a, b) ==
    IF a.t = "int" /\ b.t = "int" THEN Ok(IntV(a.v - b.v)) ELSE Raised

Ord(c) ==
    CASE c = "0" -> 48 [] c = "1" -> 49 [] c = "2" -> 50 [] c = "3" -> 51
      [] OTHER -> 32

RECURSIVE StrLess(_, _)
StrLess(p, q) ==
    IF q = <<>> THEN FALSE
    ELSE IF p = <<>> THEN TRUE
    ELSE IF Ord(Head(p)) # Ord(Head(q)) THEN Ord(Head(p)) < Ord(Head(q))
    ELSE StrLess(Tail(p), Tail(q))

\* a < b between two values of one type; between an int and a str a TypeError
Comparable(a, b) == a.t = b.t /\ a.t \in {"int", "str"}

PyLess(a, b) == IF a.t = "int" THEN a.v < b.v ELSE StrLess(a.s, b.s)

\* min(...) / max(...) over a non-empty sequence: a running best, compared
\* with every later item
RECURSIVE PyMinFrom(_, _)
PyMinFrom(best, rest) ==
    IF rest = <<>> THEN Ok(best)
    ELSE IF ~Comparable(Head(rest), best) THEN Raised
    ELSE PyMinFrom(IF PyLess(Head(rest), best) THEN Head(rest) ELSE best, Tail(rest))

PyMin(vals) == PyMinFrom(Head(vals), Tail(vals))

RECURSIVE PyMaxFrom(_, _)
PyMaxFrom(best, rest) ==
    IF rest = <<>> THEN Ok(best)
    ELSE IF ~Comparable(Head(rest), best) THEN Raised
    ELSE PyMaxFrom(IF PyLess(best, Head(rest)) THEN Head(rest) ELSE best, Tail(rest))

PyMax(vals) == PyMaxFrom(Head(vals), Tail(vals))

Whitespace == {" ", "\n", "\t"}

\* str.strip()
RECURSIVE LStrip(_)
LStrip(q) == IF q # <<>> /\ Head(q) \in Whitespace THEN LStrip(Tail(q)) ELSE q

RECURSIVE RStrip(_)
RStrip(q) ==
    IF q # <<>> /\ q[Len(q)] \in Whitespace THEN RStrip(SubSeq(q, 1, Len(q) - 1)) ELSE q

Strip(q) == RStrip(LStrip(q))

---------------------------------------------------------------------------
(* Geometry helpers of OCRService *)

ZeroBox ==
    [x |-> IntV(0), y |-> IntV(0), width |-> IntV(0), height |-> IntV(0),
     x2 |-> IntV(0), y2 |-> IntV(0)]

\* _parse_word_coordinates: any exception gives the all-zero box
parse_word_coordinates(word) ==
    LET left   == Get(word.Left, IntV(0))
        top    == Get(word.Top, IntV(0))
        width  == Get(word.Width, IntV(0))
        height == Get(word.Height, IntV(0))
        x2     == PyAdd(left, width)
        y2     == PyAdd(top, height)
    IN  IF x2.ok /\ y2.ok
        THEN [x |-> left, y |-> top, width |-> width, height |-> height,
              x2 |-> x2.val, y2 |-> y2.val]
        ELSE ZeroBox

Coords(line_words, f) == [i \in 1..Len(line_words) |-> line_words[i].boundingBox[f]]

\* _calculate_line_bounding_box: any exception gives the all-zero box
calculate_line_bounding_box(line_words) ==
    IF line_words = <<>> THEN ZeroBox
    ELSE
        LET min_x  == PyMin(Coords(line_words, "x"))
            min_y  == PyMin(Coords(line_words, "y"))
            max_x2 == PyMax(Coords(line_words, "x2"))
            max_y2 == PyMax(Coords(line_words, "y2"))
        IN  IF ~(min_x.ok /\ min_y.ok /\ max_x2.ok /\ max_y2.ok) THEN ZeroBox
            ELSE
                LET w == PySub(max_x2.val, min_x.val)
                    h == PySub(max_y2.val, min_y.val)
                IN  IF w.ok /\ h.ok
                    THEN [x |-> min_x.val, y |-> min_y.val, width |-> w.val,
                          height |-> h.val, x2 |-> max_x2.val, y2 |-> max_y2.val]
                    ELSE ZeroBox

---------------------------------------------------------------------------
(* OCRService.process_ocr_api: normalisation of a provider reply *)

\* enumerate() numbers the lines from 0; positions of a sequence start at 1
LineIndexOfShifted(pos) == pos

LineIndexOf(pos) == pos - 1

\* the inner loop over line.get('Words', []): builds word_data, appends it to
\* words and line_words, adds its confidence to the running sum
RECURSIVE WordLoop(_, _, _)
WordLoop(ws, line_idx, acc) ==
    IF ws = <<>> THEN acc
    ELSE
        LET word            == Head(ws)
            word_text       == Get(word.WordText, StrV(<<>>))
            word_confidence == Get(word.Confidence, IntV(0))
            word_coords     == parse_word_coordinates(word)
            word_data       == [text |-> word_text, confidence |-> word_confidence,
                                boundingBox |-> word_coords, lineIndex |-> line_idx]
        IN  IF word_confidence.t # "int"
            THEN [acc EXCEPT !.ok = FALSE]         \* total_confidence += ... raises
            ELSE WordLoop(Tail(ws), line_idx,
                     [acc EXCEPT !.words = Append(@, word_data),
                                 !.line_words = Append(@, word_data),
                                 !.total_confidence = @ + word_confidence.v,
                                 !.word_count = @ + 1])

\* the outer loop over text_overlay.get('Lines', [])
RECURSIVE LineLoop(_, _, _)
LineLoop(ls, pos, acc) ==
    IF ls = <<>> \/ ~acc.ok THEN acc
    ELSE
        LET line      == Head(ls)
            line_idx  == LineIndexOf(pos)
            line_text == Get(line.LineText, StrV(<<>>))
            after     == WordLoop(line.Words, line_idx, [acc EXCEPT !.line_words = <<>>])
            line_data == [text |-> line_text,
                          boundingBox |-> calculate_line_bounding_box(after.line_words),
                          words |-> after.line_words,
                          lineIndex |-> line_idx]
        IN  IF ~after.ok THEN after
            ELSE LineLoop(Tail(ls), pos + 1, [after EXCEPT !.lines = Append(@, line_data)])

ParseLines(ls) ==
    LineLoop(ls, 1, [ok |-> TRUE, words |-> <<>>, lines |-> <<>>, line_words |-> <<>>,
                     total_confidence |-> 0, word_count |-> 0])

\* total_confidence / word_count if word_count > 0 else 0.0, as a fraction
AvgConfidence(total_confidence, word_count) ==
    IF word_count > 0 THEN [num |-> total_confidence, den |-> word_count]
    ELSE [num |-> 0, den |-> 1]

\* avg_confidence / 100.0
ToUnitScale(avg) == [t |-> "float", num |-> avg.num, den |-> avg.den * 100]

Failure(error_value) == [success |-> FALSE, error |-> error_value]

\* str(n) of a non-negative int
Digit(d) ==
    CASE d = 0 -> "0" [] d = 1 -> "1" [] d = 2 -> "2" [] d = 3 -> "3" [] d = 4 -> "4"
      [] d = 5 -> "5" [] d = 6 -> "6" [] d = 7 -> "7" [] d = 8 -> "8" [] OTHER -> "9"

RECURSIVE Decimal(_)
Decimal(n) == IF n < 10 THEN <<Digit(n)>> ELSE Append(Decimal(n \div 10), Digit(n % 10))

\* except Exception as e: 'OCR API call failed: {str(e)}'
CallFailed(msg) == Failure(StrV(<<"OCR API call failed: ", msg>>))

\* except httpx.TimeoutException
TimedOut ==
    Failure(StrV(<<"OCR API request timed out. Try with a smaller image or check your internet connection.">>))

\* except httpx.HTTPStatusError as e
StatusErrorNoRateLimit(status_code) ==
    IF status_code = 413
    THEN Failure(StrV(<<"Image too large for OCR API. Please use a smaller image.">>))
    ELSE Failure(StrV(<<"OCR API error: ">> \o Decimal(status_code)))

StatusError(status_code) ==
    IF status_code = 429
    THEN Failure(StrV(<<"OCR API rate limit exceeded. Please wait a moment and try again.">>))
    ELSE IF status_code = 413
    THEN Failure(StrV(<<"Image too large for OCR API. Please use a smaller image.">>))
    ELSE Failure(StrV(<<"OCR API error: ">> \o Decimal(status_code)))

\* the body of the async with block after raise_for_status(), for a reply
\* that is a JSON object
ProcessReply(reply, language) ==
    IF reply.IsErroredOnProcessing
    THEN Failure(Get(reply.ErrorMessage, StrV(<<"OCR API error">>)))
    ELSE IF reply.ParsedResults = <<>>
    THEN Failure(StrV(<<"No text found in image">>))
    ELSE
        LET parsed_result == reply.ParsedResults[1]
            text_overlay  == parsed_result.TextOverlay
            parsed_text   == Get(parsed_result.ParsedText, StrV(<<>>))
        IN  IF parsed_text.t # "str"
            THEN CallFailed("object has no attribute 'strip'")
            ELSE IF text_overlay.t = "null"
            THEN CallFailed("'NoneType' object has no attribute 'get'")
            ELSE
                LET parsed == ParseLines(text_overlay.Lines)
                IN  IF ~parsed.ok
                    THEN CallFailed("unsupported operand type(s) for +=")
                    ELSE [success |-> TRUE,
                          text |-> StrV(Strip(parsed_text.s)),
                          confidence |-> ToUnitScale(AvgConfidence(parsed.total_confidence,
                                                                  parsed.word_count)),
                          language |-> language,
                          words |-> parsed.words,
                          lines |-> parsed.lines]

---------------------------------------------------------------------------
(* The provider's replies: JSON objects as the code reads them *)

Word(text, conf, left, top, width, height) ==
    [WordText |-> StrV(<<text>>), Confidence |-> conf,
     Left |-> left, Top |-> top, Width |-> width, Height |-> height]

NumWord(text, conf, left, top, width, height) ==
    Word(text, IntV(conf), IntV(left), IntV(top), IntV(width), IntV(height))

PlainWord == NumWord("a", 90, 0, 0, 10, 10)

\* each family is one kind of word a reply may carry next to plain ones
WordFamilies ==
    { {PlainWord, NumWord("b", 80, 20, 0, 10, 10)},
      {NumWord("b", 80, 20, 0, 10, 10), NumWord("c", 100, 5, 3, 7, 4)},
      {PlainWord, NumWord("n", 90, 5, 5, -8, 4)},
      {PlainWord, NumWord("m", 90, 2, 2, 3, -6)},
      {PlainWord, Word("s", IntV(90), StrV(<<"1", "2">>), IntV(0), StrV(<<"3", "0">>), IntV(10))},
      {Word("s", IntV(90), StrV(<<"1", "2">>), IntV(0), StrV(<<"3", "0">>), IntV(10)),
       Word("t", IntV(90), StrV(<<"1">>), IntV(0), StrV(<<"2">>), IntV(10))},
      {PlainWord, Word("u", IntV(90), NullV, IntV(0), IntV(10), IntV(10))},
      {PlainWord, Word("v", IntV(90), IntV(4), StrV(<<"1">>), IntV(10), IntV(10))},
      {PlainWord, Word("w", IntV(90), AbsentV, IntV(6), IntV(10), AbsentV)},
      {PlainWord, Word("x", AbsentV, AbsentV, AbsentV, AbsentV, AbsentV)},
      {PlainWord, NumWord("h", 150, 0, 0, 10, 10)},
      {PlainWord, NumWord("l", -10, 0, 0, 10, 10)},
      {NumWord("z", 0, 0, 0, 10, 10), NumWord("y", 100, 30, 0, 10, 10)},
      {PlainWord, Word("q", StrV(<<"9", "0">>), IntV(0), IntV(0), IntV(10), IntV(10))},
      {PlainWord, Word("r", NullV, IntV(0), IntV(0), IntV(10), IntV(10))} }

SeqsUpTo(S, n) == UNION {[1..k -> S] : k \in 0..n}

Line(ws) == [LineText |-> StrV(<<"line">>), Words |-> ws]

LineSeqs == UNION {SeqsUpTo({Line(ws) : ws \in SeqsUpTo(F, MaxWords)}, MaxLines) : F \in WordFamilies}

ParsedResult(text, overlay_t, ls) ==
    [ParsedText |-> text, TextOverlay |-> [t |-> overlay_t, Lines |-> ls]]

Reply(errored, msg, prs) ==
    [IsErroredOnProcessing |-> errored, ErrorMessage |-> msg, ParsedResults |-> prs]

SampleText == StrV(<<" ", "Hi", "\n">>)

SampleResult == ParsedResult(SampleText, "dict", <<Line(<<PlainWord>>)>>)

ParsedReplies == {Reply(FALSE, AbsentV, <<ParsedResult(SampleText, "dict", ls)>>) : ls \in LineSeqs}

ErrorMessages == {AbsentV, NullV, StrV(<<"Bad image">>), ListV(<<"Bad image", "E216">>)}

ErroredReplies == {Reply(TRUE, m, prs) : m \in ErrorMessages, prs \in {<<>>, <<SampleResult>>}}

OddReplies ==
    { Reply(FALSE, AbsentV, <<>>),
      Reply(FALSE, AbsentV, <<SampleResult, ParsedResult(SampleText, "dict", <<>>)>>),
      Reply(FALSE, AbsentV, <<ParsedResult(AbsentV, "dict", <<Line(<<PlainWord>>)>>)>>),
      Reply(FALSE, AbsentV, <<ParsedResult(NullV, "dict", <<Line(<<PlainWord>>)>>)>>),
      Reply(FALSE, AbsentV, <<ParsedResult(SampleText, "null", <<>>)>>) }

Replies == ParsedReplies \cup ErroredReplies \cup OddReplies

ErrorStatuses == {413, 429, 500, 503}

ExceptionMessages == {"All connection attempts failed", "Expecting value: line 1 column 1 (char 0)"}

---------------------------------------------------------------------------
(* The HTTP endpoint POST /ocr/process *)

\* len(image_data) > 1024 * 1024
TooLargeTenfold(n) == n > 10 * 1024 * 1024

TooLarge(n) == n > 1024 * 1024

ImageSizes == {1024 * 1024, 1024 * 1024 + 1, 2 * 1024 * 1024}

Languages == {"eng", "fra"}

NoRequest == [image |-> "none", size |-> 0, language |-> "eng", decodable |-> FALSE]

NoOutcome == [kind |-> "none"]

NoResult == [success |-> FALSE]

NoResponse == [status |-> 0]

\* the OCRResponse model: error_message is Optional[str], anything else fails
\* validation when the object is constructed
FieldOk(error_message) == error_message.t \in {"str", "null"}

OCRResponse(success, text, confidence, error_message, size, language_used, words, lines) ==
    [success |-> success, text |-> text, confidence |-> confidence,
     error_message |-> error_message, image_size_bytes |-> size,
     language_used |-> language_used, words |-> words, lines |-> lines]

NoneFloat == [t |-> "null", num |-> 0, den |-> 1]

ListOf(items) == [t |-> "list", items |-> items]

NoneList == [t |-> "null", items |-> <<>>]

\* the response process_ocr builds from ocr_result (lines 277 to 312)
BuildResponse(ocr_result, request) ==
    IF ocr_result.success
    THEN OCRResponse(TRUE,
                     DictGet(ocr_result, "text", StrV(<<>>)),
                     DictGet(ocr_result, "confidence", [t |-> "float", num |-> 0, den |-> 1]),
                     NullV,
                     request.size,
                     DictGet(ocr_result, "language", "eng"),
                     ListOf(DictGet(ocr_result, "words", <<>>)),
                     ListOf(DictGet(ocr_result, "lines", <<>>)))
    ELSE
        LET error_message == DictGet(ocr_result, "error", StrV(<<"OCR processing failed">>))
        IN  IF FieldOk(error_message)
            THEN OCRResponse(FALSE, NullV, NoneFloat, error_message, request.size,
                             request.language, ListOf(<<>>), ListOf(<<>>))
            ELSE OCRResponse(FALSE, NullV, NoneFloat,
                             StrV(<<"Internal server error: ", "1 validation error for OCRResponse">>),
                             0, request.language, NoneList, NoneList)

\* where a request goes after the provider call failed: the except clauses
\* of process_ocr_api return the failure dict
AfterFailureRetry == "call"

AfterFailure == "result"

Init ==
    /\ pc = "idle"
    /\ req = NoRequest
    /\ calls = 0
    /\ outcome = NoOutcome
    /\ result = NoResult
    /\ resp = NoResponse

\* a request arrives; the framework binds the parameters of process_ocr.
\* image is declared File(...), a required part: without it the framework
\* answers 422 and the function body never runs.  Requests share no state
\* (the service object holds only the API key and URL), so the life of one
\* request is followed from its arrival to its response
Receive ==
    /\ pc = "idle"
    /\ \E image \in {"file", "missing"}, size \in ImageSizes,
          language \in Languages, decodable \in BOOLEAN :
          /\ image = "missing" => (size = 1024 * 1024 /\ ~decodable)
          /\ req' = [image |-> image, size |-> size, language |-> language,
                     decodable |-> decodable]
          /\ IF image = "missing"
             THEN /\ pc' = "done"
                  /\ resp' = [status |-> 422, detail |-> "field required"]
             ELSE /\ pc' = "handler"
                  /\ resp' = NoResponse
    /\ calls' = 0
    /\ outcome' = NoOutcome
    /\ result' = NoResult

\* process_ocr up to the call of process_ocr_api: the two validations
Validate ==
    /\ pc = "handler"
    /\ IF req.image # "file"
       THEN /\ pc' = "done"
            /\ resp' = [status |-> 400, detail |-> "No image file provided"]
       ELSE IF TooLarge(req.size)
       THEN /\ pc' = "done"
            /\ resp' = [status |-> 413, detail |-> "Image too large"]
       ELSE /\ pc' = "call"
            /\ resp' = resp
    /\ UNCHANGED <<req, calls, outcome, result>>

\* process_ocr_api up to client.post: the image is opened and re-encoded
\* (an undecodable image raises, caught by except Exception), then the
\* request is sent
CallProvider ==
    /\ pc = "call"
    /\ calls < MaxCalls
    /\ IF ~req.decodable
       THEN /\ result' = CallFailed("cannot identify image file")
            /\ pc' = "result"
            /\ calls' = calls
       ELSE /\ calls' = calls + 1
            /\ pc' = "waiting"
            /\ result' = result
    /\ UNCHANGED <<req, outcome, resp>>

ProviderTimeout ==
    /\ pc = "waiting"
    /\ outcome' = [kind |-> "timeout"]
    /\ result' = TimedOut
    /\ pc' = AfterFailure
    /\ UNCHANGED <<req, calls, resp>>

ProviderHTTPError ==
    /\ pc = "waiting"
    /\ \E status_code \in ErrorStatuses :
          /\ outcome' = [kind |-> "http_error", status_code |-> status_code]
          /\ result' = StatusError(status_code)
    /\ pc' = AfterFailure
    /\ UNCHANGED <<req, calls, resp>>

ProviderException ==
    /\ pc = "waiting"
    /\ \E msg \in ExceptionMessages :
          /\ outcome' = [kind |-> "exception", msg |-> msg]
          /\ result' = CallFailed(msg)
    /\ pc' = AfterFailure
    /\ UNCHANGED <<req, calls, resp>>

ProviderReply ==
    /\ pc = "waiting"
    /\ \E reply \in Replies :
          /\ outcome' = [kind |-> "reply", reply |-> reply]
          /\ result' = ProcessReply(reply, req.language)
    /\ pc' = "result"
    /\ UNCHANGED <<req, calls, resp>>

\* process_ocr after process_ocr_api returned
Respond ==
    /\ pc = "result"
    /\ resp' = [status |-> 200, body |-> BuildResponse(result, req)]
    /\ pc' = "done"
    /\ UNCHANGED <<req, calls, outcome, result>>

Next ==
    \/ Receive
    \/ Validate
    \/ CallProvider
    \/ ProviderTimeout
    \/ ProviderHTTPError
    \/ ProviderException
    \/ ProviderReply
    \/ Respond

Spec == Init /\ [][Next]_vars

---------------------------------------------------------------------------
(* Properties *)

OneMiB == 1048576

Succeeded == pc \in {"result", "done"} /\ result.success

\* the lines of the reply a success result was built from
ProviderLines == outcome.reply.ParsedResults[1].TextOverlay.Lines

RECURSIVE Flatten(_)
Flatten(seqs) == IF seqs = <<>> THEN <<>> ELSE Head(seqs) \o Flatten(Tail(seqs))

ProviderWords == Flatten([i \in 1..Len(ProviderLines) |-> ProviderLines[i].Words])

RECURSIVE SumOf(_)
SumOf(nums) == IF nums = <<>> THEN 0 ELSE Head(nums) + SumOf(Tail(nums))

Below(a, b) ==
    /\ a.t = b.t
    /\ \/ a.t = "int" /\ a.v < b.v
       \/ a.t = "str" /\ StrLess(a.s, b.s)

IsLeast(val, vals) ==
    /\ \E i \in 1..Len(vals) : vals[i] = val
    /\ \A i \in 1..Len(vals) : ~Below(vals[i], val) /\ vals[i].t = val.t

IsGreatest(val, vals) ==
    /\ \E i \in 1..Len(vals) : vals[i] = val
    /\ \A i \in 1..Len(vals) : ~Below(val, vals[i]) /\ vals[i].t = val.t

IsUnionBox(box, words) ==
    /\ IsLeast(box.x, [i \in 1..Len(words) |-> words[i].boundingBox.x])
    /\ IsLeast(box.y, [i \in 1..Len(words) |-> words[i].boundingBox.y])
    /\ IsGreatest(box.x2, [i \in 1..Len(words) |-> words[i].boundingBox.x2])
    /\ IsGreatest(box.y2, [i \in 1..Len(words) |-> words[i].boundingBox.y2])
    /\ box.width.t = "int" /\ box.width.v = box.x2.v - box.x.v
    /\ box.height.t = "int" /\ box.height.v = box.y2.v - box.y.v

\* C1: in every success result a line with words has the min/max union of
\* its words' boxes as its box, and a line without words has the all-zero box
C1_LineBoxIsUnion ==
    Succeeded =>
        \A i \in 1..Len(result.lines) :
            IF result.lines[i].words = <<>>
            THEN result.lines[i].boundingBox = ZeroBox
            ELSE IsUnionBox(result.lines[i].boundingBox, result.lines[i].words)

ConfidenceSum == SumOf([k \in 1..Len(ProviderWords) |-> Get(ProviderWords[k].Confidence, IntV(0)).v])

\* C2: the confidence of every success result lies in [0,1], is 0 when the
\* overlay has no words, and is (sum of the word confidences / word count) / 100
C2_ConfidenceInUnit ==
    Succeeded =>
        /\ result.confidence.den > 0
        /\ 0 <= result.confidence.num /\ result.confidence.num <= result.confidence.den
        /\ ProviderWords = <<>> => result.confidence.num = 0
        /\ ProviderWords # <<>> =>
               result.confidence.num * 100 * Len(ProviderWords)
                   = ConfidenceSum * result.confidence.den

WellFormedBox(box) ==
    /\ \A f \in DOMAIN box : box[f].t = "int"
    /\ box.width.v >= 0 /\ box.height.v >= 0
    /\ box.x2.v >= box.x.v /\ box.y2.v >= box.y.v
    /\ box.x2.v = box.x.v + box.width.v
    /\ box.y2.v = box.y.v + box.height.v

\* C3: every word box and every line box of a success result has
\* width >= 0, height >= 0, x2 >= x, y2 >= y, x2 = x + width, y2 = y + height
C3_BoxesWellFormed ==
    Succeeded =>
        /\ \A k \in 1..Len(result.words) : WellFormedBox(result.words[k].boundingBox)
        /\ \A i \in 1..Len(result.lines) : WellFormedBox(result.lines[i].boundingBox)

\* C4: a request whose image is larger than 1 MiB never reaches the provider
\* and ends with status 413
C4_OversizeRejected ==
    (req.image = "file" /\ req.size > OneMiB) =>
        /\ calls = 0
        /\ outcome.kind = "none"
        /\ pc \in {"handler", "done"}
        /\ pc = "done" => resp.status = 413

C4_Witness == pc = "done" /\ req.image = "file" /\ req.size > OneMiB /\ resp.status = 413

\* C5: a reply with IsErroredOnProcessing set is answered with status 200,
\* success = false, error_message = the provider's ErrorMessage, and nothing
\* of the reply parsed into the response
C5_ProviderErrorSurfaced ==
    (pc = "done" /\ outcome.kind = "reply" /\ outcome.reply.IsErroredOnProcessing) =>
        /\ resp.status = 200
        /\ resp.body.success = FALSE
        /\ outcome.reply.ErrorMessage.t # "absent" =>
               resp.body.error_message = outcome.reply.ErrorMessage
        /\ resp.body.words.items = <<>>
        /\ resp.body.lines.items = <<>>
        /\ resp.body.text = NullV

ExpectedFailureMessage ==
    CASE outcome.kind = "timeout" ->
           <<"OCR API request timed out. Try with a smaller image or check your internet connection.">>
      [] outcome.kind = "exception" -> <<"OCR API call failed: ", outcome.msg>>
      [] outcome.kind = "http_error" /\ outcome.status_code = 429 ->
           <<"OCR API rate limit exceeded. Please wait a moment and try again.">>
      [] outcome.kind = "http_error" /\ outcome.status_code = 413 ->
           <<"Image too large for OCR API. Please use a smaller image.">>
      [] outcome.kind = "http_error" /\ outcome.status_code = 500 ->
           <<"OCR API error: ", "5", "0", "0">>
      [] outcome.kind = "http_error" /\ outcome.status_code = 503 ->
           <<"OCR API error: ", "5", "0", "3">>

ProviderFailed == outcome.kind \in {"timeout", "http_error", "exception"}

\* C6: a failed provider call is answered with status 200, success = false
\* and the message fixed for the failure; a status other than 200 comes only
\* from a missing image or an image over the size limit
C6_ProviderFailuresAre200 ==
    /\ (pc = "done" /\ ProviderFailed) =>
           /\ resp.status = 200
           /\ resp.body.success = FALSE
           /\ resp.body.error_message = StrV(ExpectedFailureMessage)
    /\ (pc = "done" /\ resp.status # 200) =>
           /\ req.image = "missing" \/ req.size > OneMiB
           /\ calls = 0

C6_Witness ==
    /\ pc = "done" /\ outcome.kind = "http_error" /\ outcome.status_code = 429
    /\ resp.status = 200 /\ resp.body.success = FALSE
    /\ resp.body.error_message
           = StrV(<<"OCR API rate limit exceeded. Please wait a moment and try again.">>)

GeometryMalformed(word) ==
    \E f \in {"Left", "Top", "Width", "Height"} : word[f].t \notin {"int", "absent"}

OnlyGeometryMalformed(reply) ==
    /\ ~reply.IsErroredOnProcessing
    /\ reply.ParsedResults # <<>>
    /\ reply.ParsedResults[1].ParsedText.t \in {"str", "absent"}
    /\ reply.ParsedResults[1].TextOverlay.t = "dict"
    /\ \A i \in 1..Len(reply.ParsedResults[1].TextOverlay.Lines) :
           \A j \in 1..Len(reply.ParsedResults[1].TextOverlay.Lines[i].Words) :
               reply.ParsedResults[1].TextOverlay.Lines[i].Words[j].Confidence.t
                   \in {"int", "absent"}

\* C7: malformed geometry on a word never aborts the request: the result is a
\* success carrying every word and line, and that word has the all-zero box
C7_MalformedGeometryZeroBox ==
    (pc \in {"result", "done"} /\ outcome.kind = "reply"
        /\ OnlyGeometryMalformed(outcome.reply)) =>
        /\ result.success
        /\ Len(result.lines) = Len(ProviderLines)
        /\ Len(result.words) = Len(ProviderWords)
        /\ \A k \in 1..Len(ProviderWords) :
               /\ result.words[k].text = ProviderWords[k].WordText
               /\ GeometryMalformed(ProviderWords[k]) =>
                      result.words[k].boundingBox = ZeroBox

\* C8: lines keep the provider's order and are numbered from 0, every word
\* carries the index of its line, and the flat word list is the
\* concatenation of the lines' words
C8_IndicesAndOrder ==
    Succeeded =>
        /\ Len(result.lines) = Len(ProviderLines)
        /\ \A i \in 1..Len(result.lines) :
               /\ result.lines[i].lineIndex = i - 1
               /\ result.lines[i].text = ProviderLines[i].LineText
               /\ Len(result.lines[i].words) = Len(ProviderLines[i].Words)
               /\ \A j \in 1..Len(result.lines[i].words) :
                      /\ result.lines[i].words[j].lineIndex = i - 1
                      /\ result.lines[i].words[j].text = ProviderLines[i].Words[j].WordText
        /\ result.words = Flatten([i \in 1..Len(result.lines) |-> result.lines[i].words])

C8_Witness ==
    /\ Succeeded
    /\ Len(result.lines) = 2
    /\ Len(result.lines[1].words) = 2
    /\ Len(result.lines[2].words) = 1
    /\ result.lines[1].words[1].text # result.lines[1].words[2].text
    /\ result.lines[2].words[1].text # result.lines[1].words[1].text
    /\ result.lines[2].words[1].lineIndex = 1

\* C9: a request without an image part is answered 400 and never reaches the
\* provider
C9_MissingImage400 ==
    (pc = "done" /\ req.image = "missing") => (resp.status = 400 /\ calls = 0)

\* C10: the provider is called at most once per request; a failed call ends
\* the request with a failure and no further call; a success response follows
\* exactly one completed call
C10_NoRetries ==
    /\ calls <= 1
    /\ ProviderFailed =>
           /\ calls = 1
           /\ pc \in {"result", "done"}
           /\ result.success = FALSE
           /\ pc = "done" => (resp.status = 200 /\ resp.body.success = FALSE)
    /\ (pc = "done" /\ resp.status = 200 /\ resp.body.success) =>
           (calls = 1 /\ outcome.kind = "reply")

C10_Witness ==
    /\ pc = "done" /\ outcome.kind = "timeout" /\ calls = 1
    /\ resp.status = 200 /\ resp.body.success = FALSE

=============================================================================
